---- MODULE Spec2Model ----
(***************************************************************************)
(* Model of the project-management backend (FastAPI routers over a         *)
(* relational store).  Every table of app/models.py is a set of rows; every *)
(* route handler is a sequence of store statements.  A handler is a         *)
(* coroutine: it can be suspended at each `await database...` and another   *)
(* request can run in between, so each statement is one atomic step and a   *)
(* handler with several statements occupies a request slot between them.    *)
(* A handler with a single statement is one step.                           *)
(*                                                                         *)
(* The store enforces what models.py declares: AUTO_INCREMENT primary keys  *)
(* and FOREIGN KEY columns (no ON DELETE action, i.e. RESTRICT).  A         *)
(* statement that violates a foreign key raises; no handler but             *)
(* create_alert catches it, so the request ends with status 500 and the     *)
(* statements already executed stay (there is no transaction).              *)
(***************************************************************************)
EXTENDS Integers, Sequences, FiniteSets, TLC

\* ---------------------------------------------------------------- bounds
MaxPid == 2        \* PROJECT rows ever inserted
MaxTid == 2        \* TEAM rows ever inserted
MaxIid == 2        \* ISSUE rows ever inserted
MaxAid == 2        \* ALERT rows ever inserted
MaxSid == 1        \* SPRINT rows ever inserted
MaxSAid == 3       \* SPRINT_ASSIGN rows ever inserted
MaxCid == 2        \* COMMENT rows ever inserted

\* ------------------------------------------------------------ value sets
NULL == "NULL"                 \* SQL NULL / Python None of a string column
NullId == 0                    \* SQL NULL / Python None of an integer column
Users == {"u1", "u2", "u3"}    \* UIDs of the USER rows (no handler deletes one)
Callers == {"u1", "u2"}        \* the authenticated callers of the project and team requests
NoUser == "ux"                 \* a UID that has no USER row
Procs == {1, 2}                \* request slots: handlers suspended at an await
Names == {"a", "b"}            \* project names
Idle == [op |-> "idle"]
NoResponse == [op |-> "none", status |-> 0]

ProjectIn == [P_NAME : {"a"}]
ProjectUpdate == [P_NAME : {NULL, "b"}]
TeamIn == [ROLE : {NULL, "DEV"}, P_NAME : Names]
AddMemberIn == [U_ID : {"u2"}, ROLE : {NULL}, P_NAME : Names]
SprintStats == {"PROCESSING", "DONE"}
AssigneeLists == {<<>>, <<"u1">>, <<"u1", "u2", "u1">>, <<"u1", NoUser>>}
String30 == 30                 \* Column("TITLE", String(30))
TooLong == "t31"               \* a TITLE of 31 characters
Titles == {"t1", "t2", TooLong}
SprintCreate == [TITLE : Titles, CONTENTS : {"c1"}, P_ID : {1, 2}, STAT : SprintStats,
                 ASSIGNEES : AssigneeLists]
SprintAssignIn == [S_ID : {1, 2}, UID : {"u1", "u2"}]
RefTypes == {"issue", "ISSUE"}
AlertCreate == [UID : {"u1", "u2", NoUser}, P_ID : {NullId, 1}, I_ID : {NullId}]
ISSUE_SEND == [I_RELEASE : {"PUBLIC", "PRIVATE"}, FOR_UID : Users \cup {NoUser}]

VARIABLES
    PROJECT,          \* rows [P_ID, P_NAME, UID]
    TEAM,             \* rows [T_ID, ROLE, U_ID, P_ID]
    ISSUE,            \* rows [I_ID, P_ID, I_RELEASE, FROM_UID, FOR_UID]
    ALERT,            \* rows [A_ID, A_READ, UID, P_ID, I_ID]
    SPRINT,           \* rows [S_ID, P_ID, STAT]
    SPRINT_ASSIGN,    \* rows [ID, S_ID, UID]
    COMMENT,          \* rows [C_ID, REF_TYPE, REF_ID, UID]
    seq,              \* next AUTO_INCREMENT value of each table
    req,              \* req[p]: the handler suspended in slot p, with its locals
    last,             \* the response sent by the last step (NoResponse: none)
    deleted,          \* history: projects whose delete_project returned 200
    creator           \* history: [t, id, by]: the caller whose request inserted row id of t

tables == <<PROJECT, TEAM, ISSUE, ALERT, SPRINT, SPRINT_ASSIGN, COMMENT>>
history == <<deleted, creator>>
vars == <<PROJECT, TEAM, ISSUE, ALERT, SPRINT, SPRINT_ASSIGN, COMMENT, seq, req, last,
          deleted, creator>>
\* the tables a statement on one table leaves alone
butPROJECT == <<TEAM, ISSUE, ALERT, SPRINT, SPRINT_ASSIGN, COMMENT>>
butTEAM == <<PROJECT, ISSUE, ALERT, SPRINT, SPRINT_ASSIGN, COMMENT>>
butISSUE == <<PROJECT, TEAM, ALERT, SPRINT, SPRINT_ASSIGN, COMMENT>>
butALERT == <<PROJECT, TEAM, ISSUE, SPRINT, SPRINT_ASSIGN, COMMENT>>
butSPRINT == <<PROJECT, TEAM, ISSUE, ALERT, SPRINT_ASSIGN, COMMENT>>
butSPRINT_ASSIGN == <<PROJECT, TEAM, ISSUE, ALERT, SPRINT, COMMENT>>
butCOMMENT == <<PROJECT, TEAM, ISSUE, ALERT, SPRINT, SPRINT_ASSIGN>>

\* ------------------------------------------------------------- the store
ProjectIds == {r.P_ID : r \in PROJECT}
IssueIds == {r.I_ID : r \in ISSUE}
SprintIds == {r.S_ID : r \in SPRINT}

\* models.py: Column("UID"/"U_ID"/..., ForeignKey("USER.UID"))
UserRef(uid) == uid = NULL \/ uid \in Users
\* a store that does not look at the P_ID of the rows it is given
ProjectRef_unenforced(pid) == TRUE

\* models.py: Column("P_ID", Integer, ForeignKey("PROJECT.P_ID"))
ProjectRef(pid) == pid = NullId \/ pid \in ProjectIds
\* models.py: Column("I_ID", Integer, ForeignKey("ISSUE.I_ID"), nullable=True)
IssueRef(iid) == iid = NullId \/ iid \in IssueIds
\* models.py: Column("S_ID", Integer, ForeignKey("SPRINT.S_ID"))
SprintRef(sid) == sid = NullId \/ sid \in SprintIds

\* a DELETE of PROJECT row pid is refused while a row references it
ProjectUnreferenced(pid) ==
    /\ \A r \in TEAM : r.P_ID # pid
    /\ \A r \in ISSUE : r.P_ID # pid
    /\ \A r \in ALERT : r.P_ID # pid
    /\ \A r \in SPRINT : r.P_ID # pid
\* a DELETE of ISSUE row iid is refused while an ALERT row references it
IssueUnreferenced(iid) == \A r \in ALERT : r.I_ID # iid
\* a DELETE of SPRINT row sid is refused while a SPRINT_ASSIGN row references it
SprintUnreferenced(sid) == \A r \in SPRINT_ASSIGN : r.S_ID # sid

\* a PM check that accepts any TEAM row of the caller on the project
pm_check_query_any_role(pid, uid) ==
    \E r \in TEAM : r.P_ID = pid /\ r.U_ID = uid

\* sa.select(team).where(P_ID == pid, U_ID == uid, ROLE == "PM") -> fetch_one
pm_check_query(pid, uid) ==
    \E r \in TEAM : r.P_ID = pid /\ r.U_ID = uid /\ r.ROLE = "PM"

\* A step that sends a response leaves it in `last`; it is delivered to the client
\* (Deliver) before the next statement of any handler runs.
\* a new handler is suspended at its first await: it takes the lowest free slot
Suspend(r) ==
    /\ last = NoResponse
    /\ \E p \in Procs : req[p] = Idle
    /\ LET p == CHOOSE q \in Procs : req[q] = Idle /\ \A o \in Procs : req[o] = Idle => q <= o
       IN req' = [req EXCEPT ![p] = r]
    /\ UNCHANGED last
\* the handler in slot p goes on to its next statement
Goto(p, pc) == /\ last = NoResponse
               /\ req' = [req EXCEPT ![p].pc = pc]
               /\ UNCHANGED last
\* the handler in slot p ends with response r
Respond(p, r) == /\ last = NoResponse
                 /\ req' = [req EXCEPT ![p] = Idle]
                 /\ last' = r
\* a request that ends in its first statement
Reply(r) == /\ last = NoResponse
            /\ last' = r
            /\ UNCHANGED req

Init ==
    /\ PROJECT = {}
    /\ TEAM = {}
    /\ ISSUE = {}
    /\ ALERT = {}
    /\ SPRINT = {}
    /\ SPRINT_ASSIGN = {}
    /\ COMMENT = {}
    /\ seq = [P |-> 1, T |-> 1, I |-> 1, A |-> 1, S |-> 1, SA |-> 1, C |-> 1]
    /\ req = [p \in Procs |-> Idle]
    /\ last = NoResponse
    /\ deleted = {}
    /\ creator = {}

\* ============================================================ project.py
\* POST /projects/ : one INSERT, UID = the caller
create_project(c, data) ==
    /\ seq.P <= MaxPid
    /\ PROJECT' = PROJECT \cup {[P_ID |-> seq.P, P_NAME |-> data.P_NAME, UID |-> c]}
    /\ seq' = [seq EXCEPT !.P = @ + 1]
    /\ creator' = creator \cup {[t |-> "PROJECT", id |-> seq.P, by |-> c]}
    /\ Reply([op |-> "create_project", caller |-> c, status |-> 200, P_ID |-> seq.P])
    /\ UNCHANGED <<butPROJECT, deleted>>

\* PUT /projects/{project_id} : the PM check
update_project(c, project_id, data) ==
    /\ IF pm_check_query(project_id, c)
       THEN Suspend([op |-> "update_project", pc |-> "project_query", caller |-> c,
                     project_id |-> project_id, data |-> data])
       ELSE Reply([op |-> "update_project", caller |-> c, project_id |-> project_id,
                   status |-> 403])
    /\ UNCHANGED <<tables, seq, history>>

\* ... the existence check
update_project_project_query(p) ==
    /\ req[p].op = "update_project" /\ req[p].pc = "project_query"
    /\ IF req[p].project_id \in ProjectIds
       THEN Goto(p, "update_query")
       ELSE Respond(p, [op |-> "update_project", caller |-> req[p].caller,
                        project_id |-> req[p].project_id, status |-> 404])
    /\ UNCHANGED <<tables, seq, history>>

\* update_values = {k: v for k, v in data.dict().items() if v is not None}
update_values(row, data) ==
    [row EXCEPT !.P_NAME = IF data.P_NAME = NULL THEN @ ELSE data.P_NAME]

\* project.update().where(project.c.P_ID == project_id).values(**update_values)
update_query(project_id, data) ==
    {IF r.P_ID = project_id THEN update_values(r, data) ELSE r : r \in PROJECT}

\* ... the UPDATE.  With every field None the statement has no SET clause; what
\* the driver does with it is not decided by this code: it raises (500) or
\* changes nothing.
update_project_update_query(p) ==
    /\ req[p].op = "update_project" /\ req[p].pc = "update_query"
    /\ \/ /\ PROJECT' = update_query(req[p].project_id, req[p].data)
          /\ Goto(p, "return")
       \/ /\ req[p].data.P_NAME = NULL
          /\ Respond(p, [op |-> "update_project", caller |-> req[p].caller,
                         project_id |-> req[p].project_id, status |-> 500])
          /\ UNCHANGED PROJECT
    /\ UNCHANGED <<butPROJECT, seq, history>>

\* ... the re-read that is returned (response_model=ProjectOut refuses None)
update_project_return(p) ==
    /\ req[p].op = "update_project" /\ req[p].pc = "return"
    /\ Respond(p, [op |-> "update_project", caller |-> req[p].caller,
                   project_id |-> req[p].project_id,
                   status |-> IF req[p].project_id \in ProjectIds THEN 200 ELSE 500])
    /\ UNCHANGED <<tables, seq, history>>

\* DELETE /projects/{project_id} : the PM check
delete_project(c, project_id) ==
    /\ IF pm_check_query(project_id, c)
       THEN Suspend([op |-> "delete_project", pc |-> "project_check_query", caller |-> c,
                     project_id |-> project_id])
       ELSE Reply([op |-> "delete_project", caller |-> c, project_id |-> project_id,
                   status |-> 403])
    /\ UNCHANGED <<tables, seq, history>>

\* ... the existence check
delete_project_project_check_query(p) ==
    /\ req[p].op = "delete_project" /\ req[p].pc = "project_check_query"
    /\ IF req[p].project_id \in ProjectIds
       THEN Goto(p, "delete_teams_query")
       ELSE Respond(p, [op |-> "delete_project", caller |-> req[p].caller,
                        project_id |-> req[p].project_id, status |-> 404])
    /\ UNCHANGED <<tables, seq, history>>

\* team.delete().where(team.c.P_ID == project_id)
delete_teams_query(project_id) == {r \in TEAM : r.P_ID # project_id}

\* ... the DELETE of the project's TEAM rows
delete_project_delete_teams_query(p) ==
    /\ req[p].op = "delete_project" /\ req[p].pc = "delete_teams_query"
    /\ TEAM' = delete_teams_query(req[p].project_id)
    /\ Goto(p, "delete_project_query")
    /\ UNCHANGED <<butTEAM, seq, history>>

\* a delete_project whose last statement deletes nothing
delete_project_query_nothing(project_id) == PROJECT

\* project.delete().where(project.c.P_ID == project_id)
delete_project_query(project_id) == {r \in PROJECT : r.P_ID # project_id}

\* ... the DELETE of the PROJECT row, refused by the store while a row references it
delete_project_delete_project_query(p) ==
    /\ req[p].op = "delete_project" /\ req[p].pc = "delete_project_query"
    /\ LET pid == req[p].project_id
       IN IF pid \in ProjectIds /\ ~ProjectUnreferenced(pid)
          THEN /\ Respond(p, [op |-> "delete_project", caller |-> req[p].caller,
                              project_id |-> pid, status |-> 500])
               /\ UNCHANGED <<PROJECT, deleted>>
          ELSE /\ PROJECT' = delete_project_query(pid)
               /\ deleted' = deleted \cup {pid}
               /\ Respond(p, [op |-> "delete_project", caller |-> req[p].caller,
                              project_id |-> pid, status |-> 200])
    /\ UNCHANGED <<butPROJECT, seq, creator>>

\* =============================================================== team.py
\* sa.select(project.c.P_ID).where(project.c.P_NAME == name) -> fetch_one:
\* the rows it can return (no ORDER BY: any row with that name)
project_query(name) == {r.P_ID : r \in {x \in PROJECT : x.P_NAME = name}}

\* POST /teams/create : the lookup of the project by name
create_team_as_pm(c, team_data) ==
    /\ IF project_query(team_data.P_NAME) = {}
       THEN Reply([op |-> "create_team_as_pm", caller |-> c, status |-> 404])
       ELSE \E pid \in project_query(team_data.P_NAME) :
               Suspend([op |-> "create_team_as_pm", pc |-> "insert_query", caller |-> c,
                        P_ID |-> pid, ROLE |-> team_data.ROLE])
    /\ UNCHANGED <<tables, seq, history>>

\* ... the INSERT: ROLE = team_data.ROLE or "PM", U_ID = the caller
create_team_as_pm_insert_query(p) ==
    /\ req[p].op = "create_team_as_pm" /\ req[p].pc = "insert_query"
    /\ seq.T <= MaxTid
    /\ LET row == [T_ID |-> seq.T, ROLE |-> IF req[p].ROLE = NULL THEN "PM" ELSE req[p].ROLE,
                   U_ID |-> req[p].caller, P_ID |-> req[p].P_ID]
       IN IF ProjectRef(row.P_ID) /\ UserRef(row.U_ID)
          THEN /\ TEAM' = TEAM \cup {row}
               /\ seq' = [seq EXCEPT !.T = @ + 1]
               /\ Respond(p, [op |-> "create_team_as_pm", caller |-> req[p].caller,
                              status |-> 200, T_ID |-> row.T_ID])
          ELSE /\ Respond(p, [op |-> "create_team_as_pm", caller |-> req[p].caller,
                              status |-> 500])
               /\ UNCHANGED <<TEAM, seq>>
    /\ UNCHANGED <<butTEAM, history>>

\* POST /teams/add : the lookup of the project by name
add_team_member_by_pm(c, team_data) ==
    /\ IF project_query(team_data.P_NAME) = {}
       THEN Reply([op |-> "add_team_member_by_pm", caller |-> c,
                   P_NAME |-> team_data.P_NAME, status |-> 404])
       ELSE \E pid \in project_query(team_data.P_NAME) :
               Suspend([op |-> "add_team_member_by_pm", pc |-> "check_pm_query", caller |-> c,
                        P_ID |-> pid, U_ID |-> team_data.U_ID, ROLE |-> team_data.ROLE])
    /\ UNCHANGED <<tables, seq, history>>

\* ... the PM check
add_team_member_by_pm_check_pm_query(p) ==
    /\ req[p].op = "add_team_member_by_pm" /\ req[p].pc = "check_pm_query"
    /\ IF pm_check_query(req[p].P_ID, req[p].caller)
       THEN Goto(p, "insert_query")
       ELSE Respond(p, [op |-> "add_team_member_by_pm", caller |-> req[p].caller,
                        P_ID |-> req[p].P_ID, status |-> 403])
    /\ UNCHANGED <<tables, seq, history>>

\* ... the INSERT: ROLE and U_ID as given
add_team_member_by_pm_insert_query(p) ==
    /\ req[p].op = "add_team_member_by_pm" /\ req[p].pc = "insert_query"
    /\ seq.T <= MaxTid
    /\ LET row == [T_ID |-> seq.T, ROLE |-> req[p].ROLE, U_ID |-> req[p].U_ID,
                   P_ID |-> req[p].P_ID]
       IN IF ProjectRef(row.P_ID) /\ UserRef(row.U_ID)
          THEN /\ TEAM' = TEAM \cup {row}
               /\ seq' = [seq EXCEPT !.T = @ + 1]
               /\ Respond(p, [op |-> "add_team_member_by_pm", caller |-> req[p].caller,
                              status |-> 200, T_ID |-> row.T_ID])
          ELSE /\ Respond(p, [op |-> "add_team_member_by_pm", caller |-> req[p].caller,
                              status |-> 500])
               /\ UNCHANGED <<TEAM, seq>>
    /\ UNCHANGED <<butTEAM, history>>

\* GET /teams/ : team.select()
get_teams ==
    /\ Reply([op |-> "get_teams", status |-> 200, body |-> TEAM])
    /\ UNCHANGED <<tables, seq, history>>

\* ============================================================== issue.py
\* a create_issue that takes the sender from the payload
issue_values_of_payload(c, project_id, data) ==
    [I_ID |-> seq.I, P_ID |-> project_id, I_RELEASE |-> data.I_RELEASE,
     FROM_UID |-> data.FOR_UID, FOR_UID |-> data.FOR_UID]

\* values = data.dict(); values["P_ID"] = project_id;
\* values["FROM_UID"] = current_user["UID"]
issue_values(c, project_id, data) ==
    [I_ID |-> seq.I, P_ID |-> project_id, I_RELEASE |-> data.I_RELEASE,
     FROM_UID |-> c, FOR_UID |-> data.FOR_UID]

\* POST /issues/create/{project_id} : one INSERT, FROM_UID = the caller
create_issue(c, project_id, data) ==
    /\ seq.I <= MaxIid
    /\ LET row == issue_values(c, project_id, data)
       IN IF ProjectRef(project_id) /\ UserRef(c) /\ UserRef(data.FOR_UID)
          THEN /\ ISSUE' = ISSUE \cup {row}
               /\ seq' = [seq EXCEPT !.I = @ + 1]
               /\ creator' = creator \cup {[t |-> "ISSUE", id |-> seq.I, by |-> c]}
               /\ Reply([op |-> "create_issue", caller |-> c, status |-> 200, I_ID |-> row.I_ID])
          ELSE /\ Reply([op |-> "create_issue", caller |-> c, status |-> 500])
               /\ UNCHANGED <<ISSUE, seq, creator>>
    /\ UNCHANGED <<butISSUE, deleted>>

\* a WHERE clause that does not look at I_RELEASE
release_filter_none(r, uid) == TRUE

\* the WHERE clause of get_issues and view_issue:
\* or_(I_RELEASE == PUBLIC, and_(I_RELEASE == PRIVATE, or_(FOR_UID == uid, FROM_UID == uid)))
release_filter(r, uid) ==
    \/ r.I_RELEASE = "PUBLIC"
    \/ /\ r.I_RELEASE = "PRIVATE"
       /\ (r.FOR_UID = uid \/ r.FROM_UID = uid)

\* GET /issues/view/{project_id} : one SELECT; an empty result is answered 404.
\* body: the rows selected (the response carries their columns but I_ID)
get_issues_response(store, c, project_id) ==
    LET db_issue == {r \in store : r.P_ID = project_id /\ release_filter(r, c)}
    IN [op |-> "get_issues", caller |-> c, project_id |-> project_id,
        status |-> IF db_issue = {} THEN 404 ELSE 200, body |-> db_issue]

get_issues(c, project_id) ==
    /\ Reply(get_issues_response(ISSUE, c, project_id))
    /\ UNCHANGED <<tables, seq, history>>

\* GET /issues/{issue_id} : one SELECT; no row is answered 404
view_issue_response(store, c, issue_id) ==
    LET db_issue == {r \in store : r.I_ID = issue_id /\ release_filter(r, c)}
    IN [op |-> "view_issue", caller |-> c, issue_id |-> issue_id,
        status |-> IF db_issue = {} THEN 404 ELSE 200, body |-> db_issue]

view_issue(c, issue_id) ==
    /\ Reply(view_issue_response(ISSUE, c, issue_id))
    /\ UNCHANGED <<tables, seq, history>>

\* the WHERE clause of update_issue and delete_issue:
\* and_(I_ID == issue_id, or_(FOR_UID == uid, FROM_UID == uid))
participant_filter(r, issue_id, uid) ==
    r.I_ID = issue_id /\ (r.FOR_UID = uid \/ r.FROM_UID = uid)

\* POST /issues/update/{issue_id} : the SELECT of the caller's issue.  The 403
\* branch that follows it in the code repeats the WHERE clause and is never taken.
\* the answer of that SELECT: 404 when it finds no row, none yet when it finds one
update_issue_check(store, c, issue_id) ==
    IF \E r \in store : participant_filter(r, issue_id, c)
    THEN NoResponse
    ELSE [op |-> "update_issue", caller |-> c, issue_id |-> issue_id, status |-> 404]

update_issue(c, issue_id, data) ==
    /\ IF update_issue_check(ISSUE, c, issue_id) = NoResponse
       THEN Suspend([op |-> "update_issue", pc |-> "update", caller |-> c,
                     issue_id |-> issue_id, data |-> data])
       ELSE Reply(update_issue_check(ISSUE, c, issue_id))
    /\ UNCHANGED <<tables, seq, history>>

\* ... the UPDATE under the same WHERE clause; revised_rows is ignored
update_issue_update(p) ==
    /\ req[p].op = "update_issue" /\ req[p].pc = "update"
    /\ LET d == req[p].data
           hit == {r \in ISSUE : participant_filter(r, req[p].issue_id, req[p].caller)}
       IN IF hit # {} /\ ~UserRef(d.FOR_UID)
          THEN /\ Respond(p, [op |-> "update_issue", caller |-> req[p].caller,
                              issue_id |-> req[p].issue_id, status |-> 500])
               /\ UNCHANGED ISSUE
          ELSE /\ ISSUE' = {IF r \in hit
                            THEN [r EXCEPT !.I_RELEASE = d.I_RELEASE, !.FOR_UID = d.FOR_UID]
                            ELSE r : r \in ISSUE}
               /\ req' = [req EXCEPT ![p] = [@ EXCEPT !.pc = "restore_query"] @@
                                                ("revised_rows" :> Cardinality(hit))]
               /\ last = NoResponse
               /\ UNCHANGED last
    /\ UNCHANGED <<butISSUE, seq, history>>

\* ... the re-read by I_ID alone, which is returned (response_model=ISSUEOut refuses None)
update_issue_restore_query(p) ==
    /\ req[p].op = "update_issue" /\ req[p].pc = "restore_query"
    /\ LET db_issue == {r \in ISSUE : r.I_ID = req[p].issue_id}
       IN Respond(p, [op |-> "update_issue", caller |-> req[p].caller,
                      issue_id |-> req[p].issue_id, revised_rows |-> req[p].revised_rows,
                      status |-> IF db_issue = {} THEN 500 ELSE 200, body |-> db_issue])
    /\ UNCHANGED <<tables, seq, history>>

\* DELETE /issues/delete/{issue_id} : the SELECT of the caller's issue
\* the answer of that SELECT: 404 when it finds no row, none yet when it finds one
delete_issue_check(store, c, issue_id) ==
    IF \E r \in store : participant_filter(r, issue_id, c)
    THEN NoResponse
    ELSE [op |-> "delete_issue", caller |-> c, issue_id |-> issue_id, status |-> 404]

delete_issue(c, issue_id) ==
    /\ IF delete_issue_check(ISSUE, c, issue_id) = NoResponse
       THEN Suspend([op |-> "delete_issue", pc |-> "delete", caller |-> c,
                     issue_id |-> issue_id])
       ELSE Reply(delete_issue_check(ISSUE, c, issue_id))
    /\ UNCHANGED <<tables, seq, history>>

\* ... the DELETE by I_ID alone, refused by the store while an ALERT row references it
delete_issue_delete(p) ==
    /\ req[p].op = "delete_issue" /\ req[p].pc = "delete"
    /\ LET iid == req[p].issue_id
       IN IF iid \in IssueIds /\ ~IssueUnreferenced(iid)
          THEN /\ Respond(p, [op |-> "delete_issue", caller |-> req[p].caller,
                              issue_id |-> iid, status |-> 500])
               /\ UNCHANGED ISSUE
          ELSE /\ ISSUE' = {r \in ISSUE : r.I_ID # iid}
               /\ Respond(p, [op |-> "delete_issue", caller |-> req[p].caller,
                              issue_id |-> iid, status |-> 200])
    /\ UNCHANGED <<butISSUE, seq, history>>

\* ============================================================== alert.py
\* a create_alert that addresses the alert to its caller
insert_values_to_caller(c, data) ==
    [A_ID |-> seq.A, A_READ |-> FALSE, UID |-> c, P_ID |-> data.P_ID, I_ID |-> data.I_ID]

\* insert_values = {..., "UID": data.UID, "P_ID": data.P_ID, "I_ID": data.I_ID,
\* "A_READ": False}: the caller's UID is not stored
insert_values(c, data) ==
    [A_ID |-> seq.A, A_READ |-> FALSE, UID |-> data.UID, P_ID |-> data.P_ID,
     I_ID |-> data.I_ID]

\* POST /alerts/create : the INSERT; an exception of the store is caught and
\* answered 500
create_alert(c, data) ==
    /\ seq.A <= MaxAid
    /\ IF UserRef(data.UID) /\ ProjectRef(data.P_ID) /\ IssueRef(data.I_ID)
          THEN /\ ALERT' = ALERT \cup {insert_values(c, data)}
               /\ seq' = [seq EXCEPT !.A = @ + 1]
               /\ creator' = creator \cup {[t |-> "ALERT", id |-> seq.A, by |-> c]}
               /\ Suspend([op |-> "create_alert", pc |-> "select_query", caller |-> c,
                           data |-> data, last_record_id |-> seq.A])
          ELSE /\ Reply([op |-> "create_alert", caller |-> c, data |-> data, status |-> 500])
               /\ UNCHANGED <<ALERT, seq, creator>>
    /\ UNCHANGED <<butALERT, deleted>>

\* ... the re-read of the new row, returned as a list of one
create_alert_select_query(p) ==
    /\ req[p].op = "create_alert" /\ req[p].pc = "select_query"
    /\ LET created_alert_record == {r \in ALERT : r.A_ID = req[p].last_record_id}
       IN Respond(p, [op |-> "create_alert", caller |-> req[p].caller, data |-> req[p].data,
                      status |-> IF created_alert_record = {} THEN 404 ELSE 200,
                      body |-> created_alert_record])
    /\ UNCHANGED <<tables, seq, history>>

\* GET /alerts/view : alert.select().where(alert.c.UID == current_user["UID"])
view_alert(c) ==
    /\ Reply([op |-> "view_alert", caller |-> c, status |-> 200,
              body |-> {r \in ALERT : r.UID = c}])
    /\ UNCHANGED <<tables, seq, history>>

\* a set_read_alert whose SELECT does not look at the recipient
existing_alert_record_of_anyone(alert_id, uid) == {r \in ALERT : r.A_ID = alert_id}

\* alert.select().where((alert.c.A_ID == alert_id) & (alert.c.UID == current_user["UID"]))
existing_alert_record(alert_id, uid) == {r \in ALERT : r.A_ID = alert_id /\ r.UID = uid}

\* POST /alerts/read/{alert_id} : the SELECT of the caller's alert
set_read_alert(c, alert_id, read) ==
    /\ IF existing_alert_record(alert_id, c) # {}
       THEN Suspend([op |-> "set_read_alert", pc |-> "update_query", caller |-> c,
                     alert_id |-> alert_id, read |-> read])
       ELSE Reply([op |-> "set_read_alert", caller |-> c, alert_id |-> alert_id,
                   status |-> 404])
    /\ UNCHANGED <<tables, seq, history>>

\* alert.update().where(alert.c.A_ID == alert_id).values(A_READ=read)
update_alert_query(alert_id, read) ==
    {IF r.A_ID = alert_id THEN [r EXCEPT !.A_READ = read] ELSE r : r \in ALERT}

\* ... the UPDATE by A_ID alone
set_read_alert_update_query(p) ==
    /\ req[p].op = "set_read_alert" /\ req[p].pc = "update_query"
    /\ ALERT' = update_alert_query(req[p].alert_id, req[p].read)
    /\ Goto(p, "updated_query")
    /\ UNCHANGED <<butALERT, seq, history>>

\* ... the re-read that is returned
set_read_alert_updated_query(p) ==
    /\ req[p].op = "set_read_alert" /\ req[p].pc = "updated_query"
    /\ LET updated_alert_record == {r \in ALERT : r.A_ID = req[p].alert_id}
       IN Respond(p, [op |-> "set_read_alert", caller |-> req[p].caller,
                      alert_id |-> req[p].alert_id,
                      status |-> IF updated_alert_record = {} THEN 404 ELSE 200,
                      body |-> updated_alert_record])
    /\ UNCHANGED <<tables, seq, history>>

\* ============================================================= sprint.py
\* the number of characters of a title
Length(title) == IF title = TooLong THEN 31 ELSE 2

\* a create_sprint that stores the default STAT whatever was submitted
sprint_data_default_stat(data) ==
    [TITLE |-> data.TITLE, CONTENTS |-> data.CONTENTS, P_ID |-> data.P_ID,
     STAT |-> "PROCESSING"]

\* sprint_data = {"TITLE": data.TITLE, "CONTENTS": data.CONTENTS, "P_ID": data.P_ID,
\* "STAT": data.STAT}
sprint_data(data) ==
    [TITLE |-> data.TITLE, CONTENTS |-> data.CONTENTS, P_ID |-> data.P_ID,
     STAT |-> data.STAT]

\* POST /sprints/create : the INSERT of the SPRINT row, which the store refuses for
\* a P_ID without PROJECT row and for a TITLE longer than its column; without
\* assignees the handler returns after it
create_sprint(c, data) ==
    /\ seq.S <= MaxSid
    /\ IF ProjectRef(data.P_ID) /\ Length(data.TITLE) <= String30
       THEN /\ SPRINT' = SPRINT \cup {sprint_data(data) @@ ("S_ID" :> seq.S)}
            /\ seq' = [seq EXCEPT !.S = @ + 1]
            /\ IF data.ASSIGNEES = <<>>
               THEN /\ Reply([op |-> "create_sprint", data |-> data, status |-> 200,
                              S_ID |-> seq.S])
                    /\ creator' = creator \cup
                          {[t |-> "SPRINT", id |-> seq.S, by |-> c, data |-> data]}
               ELSE /\ Suspend([op |-> "create_sprint", pc |-> "assign_query",
                                caller |-> c, data |-> data,
                                new_sprint_id |-> seq.S, todo |-> data.ASSIGNEES])
                    /\ UNCHANGED creator
       ELSE /\ Reply([op |-> "create_sprint", data |-> data, status |-> 500])
            /\ UNCHANGED <<SPRINT, seq, creator>>
    /\ UNCHANGED <<butSPRINT, deleted>>

\* ... for uid in data.ASSIGNEES: one INSERT into SPRINT_ASSIGN per element
create_sprint_assign_query(p) ==
    /\ req[p].op = "create_sprint" /\ req[p].pc = "assign_query"
    /\ seq.SA <= MaxSAid
    /\ LET uid == Head(req[p].todo)
           rest == Tail(req[p].todo)
       IN IF SprintRef(req[p].new_sprint_id) /\ UserRef(uid)
          THEN /\ SPRINT_ASSIGN' = SPRINT_ASSIGN \cup
                      {[ID |-> seq.SA, S_ID |-> req[p].new_sprint_id, UID |-> uid]}
               /\ seq' = [seq EXCEPT !.SA = @ + 1]
               /\ IF rest = <<>>
                  THEN /\ Respond(p, [op |-> "create_sprint", data |-> req[p].data,
                                      status |-> 200, S_ID |-> req[p].new_sprint_id])
                       /\ creator' = creator \cup
                             {[t |-> "SPRINT", id |-> req[p].new_sprint_id,
                               by |-> req[p].caller, data |-> req[p].data]}
                  ELSE /\ last = NoResponse
                       /\ req' = [req EXCEPT ![p].todo = rest]
                       /\ UNCHANGED <<last, creator>>
          ELSE /\ Respond(p, [op |-> "create_sprint", data |-> req[p].data, status |-> 500])
               /\ UNCHANGED <<SPRINT_ASSIGN, seq, creator>>
    /\ UNCHANGED <<butSPRINT_ASSIGN, deleted>>

\* sprint.select().where(sprint.c.P_ID == projectid)
sprint_query(projectid) == {s \in SPRINT : s.P_ID = projectid}

\* select UID, NICKNAME from SPRINT_ASSIGN join USER where S_ID == s["S_ID"]:
\* one element per SPRINT_ASSIGN row (told apart here by the row's ID)
assignee_query(sid) ==
    {[ID |-> r.ID, UID |-> r.UID] : r \in {x \in SPRINT_ASSIGN : x.S_ID = sid /\ x.UID \in Users}}

\* GET /sprints/project/{projectid} : the SELECT of the project's sprints.  known:
\* the create_sprint requests for the project answered 200 before this request
get_project_sprints(c, projectid) ==
    /\ LET sprint_rows == sprint_query(projectid)
           known == {k \in creator : k.t = "SPRINT" /\ k.data.P_ID = projectid}
       IN IF sprint_rows = {}
          THEN Reply([op |-> "get_project_sprints", projectid |-> projectid,
                      status |-> 200, body |-> {}, known |-> known])
          ELSE Suspend([op |-> "get_project_sprints", pc |-> "assignee_query",
                        projectid |-> projectid, sprint_rows |-> sprint_rows,
                        result |-> {}, known |-> known])
    /\ UNCHANGED <<tables, seq, history>>

\* ... for s in sprint_rows: the SELECT of the assignees of s, appended to result
get_project_sprints_assignee_query(p) ==
    /\ req[p].op = "get_project_sprints" /\ req[p].pc = "assignee_query"
    /\ LET s == CHOOSE x \in req[p].sprint_rows :
                    \A y \in req[p].sprint_rows : x.S_ID <= y.S_ID
           rest == req[p].sprint_rows \ {s}
           result == req[p].result \cup {s @@ ("ASSIGNEES" :> assignee_query(s.S_ID))}
       IN IF rest = {}
          THEN Respond(p, [op |-> "get_project_sprints", projectid |-> req[p].projectid,
                           status |-> 200, body |-> result, known |-> req[p].known])
          ELSE /\ last = NoResponse
               /\ req' = [req EXCEPT ![p].sprint_rows = rest, ![p].result = result]
               /\ UNCHANGED last
    /\ UNCHANGED <<tables, seq, history>>

\* the existence check left out: no assignment is ever found
assign_exists_never(data) == FALSE

\* sprint_assign.select().where((S_ID == data.S_ID) & (UID == data.UID))
assign_exists(data) ==
    \E r \in SPRINT_ASSIGN : r.S_ID = data.S_ID /\ r.UID = data.UID

\* POST /sprint-assign : the check for an existing assignment
assign_user_to_sprint(c, data) ==
    /\ IF assign_exists(data)
       THEN Reply([op |-> "assign_user_to_sprint", data |-> data, status |-> 400])
       ELSE Suspend([op |-> "assign_user_to_sprint", pc |-> "query", data |-> data])
    /\ UNCHANGED <<tables, seq, history>>

\* ... the INSERT
assign_user_to_sprint_query(p) ==
    /\ req[p].op = "assign_user_to_sprint" /\ req[p].pc = "query"
    /\ seq.SA <= MaxSAid
    /\ LET data == req[p].data
       IN IF SprintRef(data.S_ID) /\ UserRef(data.UID)
          THEN /\ SPRINT_ASSIGN' = SPRINT_ASSIGN \cup
                      {[ID |-> seq.SA, S_ID |-> data.S_ID, UID |-> data.UID]}
               /\ seq' = [seq EXCEPT !.SA = @ + 1]
               /\ last = NoResponse
               /\ req' = [req EXCEPT ![p] = [op |-> "assign_user_to_sprint", pc |-> "result",
                                             data |-> data, new_id |-> seq.SA]]
               /\ UNCHANGED last
          ELSE /\ Respond(p, [op |-> "assign_user_to_sprint", data |-> data, status |-> 500])
               /\ UNCHANGED <<SPRINT_ASSIGN, seq>>
    /\ UNCHANGED <<butSPRINT_ASSIGN, history>>

\* ... the re-read that is returned (response_model=SprintAssignOut refuses None)
assign_user_to_sprint_result(p) ==
    /\ req[p].op = "assign_user_to_sprint" /\ req[p].pc = "result"
    /\ LET result == {r \in SPRINT_ASSIGN : r.ID = req[p].new_id}
       IN Respond(p, [op |-> "assign_user_to_sprint", data |-> req[p].data,
                      status |-> IF result = {} THEN 500 ELSE 200, body |-> result])
    /\ UNCHANGED <<tables, seq, history>>

\* DELETE /sprint-assign : the check for the assignment
unassign_user_from_sprint(c, data) ==
    /\ IF assign_exists(data)
       THEN Suspend([op |-> "unassign_user_from_sprint", pc |-> "delete_query", data |-> data])
       ELSE Reply([op |-> "unassign_user_from_sprint", data |-> data, status |-> 404])
    /\ UNCHANGED <<tables, seq, history>>

\* ... the DELETE of every row of the pair
unassign_user_from_sprint_delete_query(p) ==
    /\ req[p].op = "unassign_user_from_sprint" /\ req[p].pc = "delete_query"
    /\ SPRINT_ASSIGN' = {r \in SPRINT_ASSIGN :
                            ~(r.S_ID = req[p].data.S_ID /\ r.UID = req[p].data.UID)}
    /\ Respond(p, [op |-> "unassign_user_from_sprint", data |-> req[p].data, status |-> 200])
    /\ UNCHANGED <<butSPRINT_ASSIGN, seq, history>>

\* ============================================================ comment.py
\* ref_type.upper()
Upper(ref_type) == IF ref_type = "issue" THEN "ISSUE" ELSE ref_type

\* POST /comments/{ref_type}/{ref_id} : the INSERT, UID = the caller
create_comment(c, ref_type, ref_id) ==
    /\ seq.C <= MaxCid
    /\ COMMENT' = COMMENT \cup {[C_ID |-> seq.C, REF_TYPE |-> Upper(ref_type),
                                 REF_ID |-> ref_id, UID |-> c]}
    /\ seq' = [seq EXCEPT !.C = @ + 1]
    /\ creator' = creator \cup {[t |-> "COMMENT", id |-> seq.C, by |-> c]}
    /\ Suspend([op |-> "create_comment", pc |-> "select", caller |-> c, new_id |-> seq.C])
    /\ UNCHANGED <<butCOMMENT, deleted>>

\* ... the re-read that is returned (response_model=CommentOut refuses None)
create_comment_select(p) ==
    /\ req[p].op = "create_comment" /\ req[p].pc = "select"
    /\ LET created_comment == {r \in COMMENT : r.C_ID = req[p].new_id}
       IN Respond(p, [op |-> "create_comment", caller |-> req[p].caller,
                      status |-> IF created_comment = {} THEN 500 ELSE 200,
                      body |-> created_comment])
    /\ UNCHANGED <<tables, seq, history>>

\* GET /comments/{ref_type}/{ref_id} : one SELECT
get_comments(ref_type, ref_id) ==
    /\ Reply([op |-> "get_comments", status |-> 200,
              body |-> {r \in COMMENT : r.REF_TYPE = Upper(ref_type) /\ r.REF_ID = ref_id}])
    /\ UNCHANGED <<tables, seq, history>>

\* a delete_comment without the check of the author
delete_comment_check_no_author(existing, uid) ==
    IF existing = {} THEN 404 ELSE 0

\* the checks of delete_comment on the row it read: 0 passes, else the status
delete_comment_check(existing, uid) ==
    IF existing = {} THEN 404
    ELSE IF \E r \in existing : r.UID # uid THEN 403
    ELSE 0

\* DELETE /comments/{comment_id} : the SELECT by C_ID and the checks on it
delete_comment(c, comment_id) ==
    /\ LET existing == {r \in COMMENT : r.C_ID = comment_id}
           refused == delete_comment_check(existing, c)
       IN IF refused = 0
          THEN Suspend([op |-> "delete_comment", pc |-> "delete_query", caller |-> c,
                        comment_id |-> comment_id])
          ELSE Reply([op |-> "delete_comment", caller |-> c, comment_id |-> comment_id,
                      status |-> refused])
    /\ UNCHANGED <<tables, seq, history>>

\* ... the DELETE by C_ID
delete_comment_delete_query(p) ==
    /\ req[p].op = "delete_comment" /\ req[p].pc = "delete_query"
    /\ COMMENT' = {r \in COMMENT : r.C_ID # req[p].comment_id}
    /\ Respond(p, [op |-> "delete_comment", caller |-> req[p].caller,
                   comment_id |-> req[p].comment_id, status |-> 200])
    /\ UNCHANGED <<butCOMMENT, seq, history>>

\* ============================================================ the systems
\* the response of the last step reaches the client
Deliver ==
    /\ last # NoResponse
    /\ last' = NoResponse
    /\ UNCHANGED <<tables, seq, req, history>>

PidInputs == 1 .. MaxPid

\* the project administration: projects, their PM rows, and a referencing row
NextProject ==
    \/ \E data \in ProjectIn : create_project("u1", data)
    \/ \E c \in Callers, pid \in PidInputs, data \in ProjectUpdate :
          update_project(c, pid, data)
    \/ \E p \in Procs : update_project_project_query(p)
    \/ \E p \in Procs : update_project_update_query(p)
    \/ \E p \in Procs : update_project_return(p)
    \/ \E c \in Callers, pid \in PidInputs : delete_project(c, pid)
    \/ \E p \in Procs : delete_project_project_check_query(p)
    \/ \E p \in Procs : delete_project_delete_teams_query(p)
    \/ \E p \in Procs : delete_project_delete_project_query(p)
    \/ \E c \in Callers, d \in TeamIn : create_team_as_pm(c, d)
    \/ \E p \in Procs : create_team_as_pm_insert_query(p)
    \/ \E pid \in PidInputs :
          /\ ISSUE = {}
          /\ create_issue("u1", pid, [I_RELEASE |-> "PUBLIC", FOR_UID |-> "u1"])
    \/ Deliver

SpecProject == Init /\ [][NextProject]_vars

\* the teams: membership rows against the deletion of their project
NextTeam ==
    \/ \E data \in ProjectIn : create_project("u1", data)
    \/ \E c \in Callers, pid \in PidInputs : delete_project(c, pid)
    \/ \E p \in Procs : delete_project_project_check_query(p)
    \/ \E p \in Procs : delete_project_delete_teams_query(p)
    \/ \E p \in Procs : delete_project_delete_project_query(p)
    \/ \E c \in Callers, d \in {x \in TeamIn : x.ROLE = NULL} : create_team_as_pm(c, d)
    \/ \E p \in Procs : create_team_as_pm_insert_query(p)
    \/ \E c \in Callers, d \in AddMemberIn : add_team_member_by_pm(c, d)
    \/ \E p \in Procs : add_team_member_by_pm_check_pm_query(p)
    \/ \E p \in Procs : add_team_member_by_pm_insert_query(p)
    \/ get_teams
    \/ Deliver

SpecTeam == Init /\ [][NextTeam]_vars

\* the issues of two projects that u1 created before (ParentPids), sent by u1 and
\* read and changed by u1 and u2; project 3 does not exist
ParentPids == {1, 2}
InitIssue ==
    /\ PROJECT = {[P_ID |-> n, P_NAME |-> "a", UID |-> "u1"] : n \in ParentPids}
    /\ TEAM = {}
    /\ ISSUE = {}
    /\ ALERT = {}
    /\ SPRINT = {}
    /\ SPRINT_ASSIGN = {}
    /\ COMMENT = {}
    /\ seq = [P |-> 3, T |-> 1, I |-> 1, A |-> 1, S |-> 1, SA |-> 1, C |-> 1]
    /\ req = [p \in Procs |-> Idle]
    /\ last = NoResponse
    /\ deleted = {}
    /\ creator = {[t |-> "PROJECT", id |-> n, by |-> "u1"] : n \in ParentPids}

IidInputs == 1 .. MaxIid
IssueCreate == {d \in ISSUE_SEND : d.FOR_UID \in {"u1", "u2", NoUser}}
IssueUpdate == {d \in ISSUE_SEND : d.I_RELEASE = "PRIVATE" /\ d.FOR_UID = "u3"}
NextIssue ==
    \/ \E pid \in ParentPids \cup {3}, data \in IssueCreate : create_issue("u1", pid, data)
    \/ \E c \in Callers, pid \in ParentPids : get_issues(c, pid)
    \/ \E c \in Callers, iid \in IidInputs : view_issue(c, iid)
    \/ \E c \in Callers, iid \in IidInputs, data \in IssueUpdate : update_issue(c, iid, data)
    \/ \E p \in Procs : update_issue_update(p)
    \/ \E p \in Procs : update_issue_restore_query(p)
    \/ \E c \in Callers, iid \in IidInputs : delete_issue(c, iid)
    \/ \E p \in Procs : delete_issue_delete(p)
    \/ Deliver

SpecIssue == InitIssue /\ [][NextIssue]_vars

\* the alerts of u1 and u2; there is no project: P_ID 1 refers to no row
AidInputs == 1 .. MaxAid
NextAlert ==
    \/ \E c \in Callers, data \in AlertCreate : create_alert(c, data)
    \/ \E p \in Procs : create_alert_select_query(p)
    \/ \E c \in Callers : view_alert(c)
    \/ \E c \in Callers, aid \in AidInputs, read \in BOOLEAN : set_read_alert(c, aid, read)
    \/ \E p \in Procs : set_read_alert_update_query(p)
    \/ \E p \in Procs : set_read_alert_updated_query(p)
    \/ Deliver

SpecAlert == Init /\ [][NextAlert]_vars

\* the sprints of project 1, which u1 created before; project 2 does not exist
InitSprint ==
    /\ PROJECT = {[P_ID |-> 1, P_NAME |-> "a", UID |-> "u1"]}
    /\ TEAM = {}
    /\ ISSUE = {}
    /\ ALERT = {}
    /\ SPRINT = {}
    /\ SPRINT_ASSIGN = {}
    /\ COMMENT = {}
    /\ seq = [P |-> 2, T |-> 1, I |-> 1, A |-> 1, S |-> 1, SA |-> 1, C |-> 1]
    /\ req = [p \in Procs |-> Idle]
    /\ last = NoResponse
    /\ deleted = {}
    /\ creator = {[t |-> "PROJECT", id |-> 1, by |-> "u1"]}

SprintCreateIn == {d \in SprintCreate : d.TITLE = "t1" /\ d.STAT = "PROCESSING"}
NextSprint ==
    \/ \E data \in SprintCreateIn : create_sprint("u1", data)
    \/ \E p \in Procs : create_sprint_assign_query(p)
    \/ \E data \in SprintAssignIn : assign_user_to_sprint("u1", data)
    \/ \E p \in Procs : assign_user_to_sprint_query(p)
    \/ \E p \in Procs : assign_user_to_sprint_result(p)
    \/ \E data \in SprintAssignIn : unassign_user_from_sprint("u1", data)
    \/ \E p \in Procs : unassign_user_from_sprint_delete_query(p)
    \/ Deliver

SpecSprint == InitSprint /\ [][NextSprint]_vars

\* the sprints of project 1 read back: create_sprint and get_project_sprints alone
SprintCreateView == {d \in SprintCreate : d.STAT = "DONE" \/ d.TITLE = "t1"}
NextSprintView ==
    \/ \E data \in SprintCreateView : create_sprint("u1", data)
    \/ \E p \in Procs : create_sprint_assign_query(p)
    \/ \E pid \in {1, 2} : get_project_sprints("u1", pid)
    \/ \E p \in Procs : get_project_sprints_assignee_query(p)
    \/ Deliver

SpecSprintView == InitSprint /\ [][NextSprintView]_vars

\* the rows that refer to a project against its deletion: projects 1 and 2, which
\* u1 created and is PM of; project 3 does not exist
InitReference ==
    /\ PROJECT = {[P_ID |-> n, P_NAME |-> "a", UID |-> "u1"] : n \in ParentPids}
    /\ TEAM = {[T_ID |-> n, ROLE |-> "PM", U_ID |-> "u1", P_ID |-> n] : n \in ParentPids}
    /\ ISSUE = {}
    /\ ALERT = {}
    /\ SPRINT = {}
    /\ SPRINT_ASSIGN = {}
    /\ COMMENT = {}
    /\ seq = [P |-> 3, T |-> 3, I |-> 1, A |-> 1, S |-> 1, SA |-> 1, C |-> 1]
    /\ req = [p \in Procs |-> Idle]
    /\ last = NoResponse
    /\ deleted = {}
    /\ creator = {[t |-> "PROJECT", id |-> n, by |-> "u1"] : n \in ParentPids}

NextReference ==
    \/ \E pid \in ParentPids \cup {3} :
          create_issue("u1", pid, [I_RELEASE |-> "PUBLIC", FOR_UID |-> "u1"])
    \/ \E data \in {d \in SprintCreateIn : d.ASSIGNEES = <<>>} : create_sprint("u1", data)
    \/ \E data \in {d \in AlertCreate : d.UID = "u1"} : create_alert("u1", data)
    \/ \E p \in Procs : create_alert_select_query(p)
    \/ \E pid \in ParentPids : delete_project("u1", pid)
    \/ \E p \in Procs : delete_project_project_check_query(p)
    \/ \E p \in Procs : delete_project_delete_teams_query(p)
    \/ \E p \in Procs : delete_project_delete_project_query(p)
    \/ Deliver

SpecReference == InitReference /\ [][NextReference]_vars

\* the owners: projects, issues and comments that u1 creates and u2 updates;
\* u1 created project 1 before and u2 is its PM
InitOwner ==
    /\ PROJECT = {[P_ID |-> 1, P_NAME |-> "a", UID |-> "u1"]}
    /\ TEAM = {[T_ID |-> 1, ROLE |-> "PM", U_ID |-> "u2", P_ID |-> 1]}
    /\ ISSUE = {}
    /\ ALERT = {}
    /\ SPRINT = {}
    /\ SPRINT_ASSIGN = {}
    /\ COMMENT = {}
    /\ seq = [P |-> 2, T |-> 2, I |-> 1, A |-> 1, S |-> 1, SA |-> 1, C |-> 1]
    /\ req = [p \in Procs |-> Idle]
    /\ last = NoResponse
    /\ deleted = {}
    /\ creator = {[t |-> "PROJECT", id |-> 1, by |-> "u1"]}

NextOwner ==
    \/ \E data \in ProjectIn : create_project("u1", data)
    \/ \E pid \in PidInputs, data \in {x \in ProjectUpdate : x.P_NAME # NULL} :
          update_project("u2", pid, data)
    \/ \E p \in Procs : update_project_project_query(p)
    \/ \E p \in Procs : update_project_update_query(p)
    \/ \E p \in Procs : update_project_return(p)
    \/ create_issue("u1", 1, [I_RELEASE |-> "PUBLIC", FOR_UID |-> "u2"])
    \/ \E iid \in IidInputs, data \in IssueUpdate : update_issue("u2", iid, data)
    \/ \E p \in Procs : update_issue_update(p)
    \/ \E p \in Procs : update_issue_restore_query(p)
    \/ create_comment("u1", "issue", 1)
    \/ \E p \in Procs : create_comment_select(p)
    \/ Deliver

SpecOwner == InitOwner /\ [][NextOwner]_vars

\* the comments of u1 and u2 on issue 1
CidInputs == 1 .. MaxCid
NextComment ==
    \/ \E c \in Callers, t \in RefTypes : create_comment(c, t, 1)
    \/ \E p \in Procs : create_comment_select(p)
    \/ \E t \in RefTypes : get_comments(t, 1)
    \/ \E c \in Callers, cid \in CidInputs : delete_comment(c, cid)
    \/ \E p \in Procs : delete_comment_delete_query(p)
    \/ Deliver

SpecComment == Init /\ [][NextComment]_vars

\* =============================================================== claims
\* the issues caller uid may see: the PUBLIC ones and those it sent or is assigned
VisibleTo(uid) ==
    {r \in ISSUE : r.I_RELEASE = "PUBLIC" \/ r.FROM_UID = uid \/ r.FOR_UID = uid}

\* C1: view_issue and get_issues return an issue if and only if it is PUBLIC or the
\* caller is its FROM_UID or FOR_UID; when nothing is returned the answer is 404.
C1_issue_visibility ==
    /\ last.op = "view_issue" =>
          /\ last.body = {r \in VisibleTo(last.caller) : r.I_ID = last.issue_id}
          /\ last.status = IF last.body = {} THEN 404 ELSE 200
    /\ last.op = "get_issues" =>
          /\ last.body = {r \in VisibleTo(last.caller) : r.P_ID = last.project_id}
          /\ last.status = IF last.body = {} THEN 404 ELSE 200

\* a caller who is neither sender nor assignee asks for a PRIVATE issue and gets 404
C1_witness ==
    /\ last.op = "view_issue" /\ last.status = 404
    /\ \E r \in ISSUE : /\ r.I_ID = last.issue_id /\ r.I_RELEASE = "PRIVATE"
                        /\ r.FROM_UID # last.caller /\ r.FOR_UID # last.caller

\* C2: update_project and delete_project succeed if and only if the caller holds a
\* PM row on the project at call time; every other caller is answered 403 and
\* PROJECT and TEAM are left unchanged.  A request passes the PM check only as PM,
\* so the claim leaves two answers: 200 to a PM and 403 to anyone else.
C2_pm_iff_success ==
    last.op \in {"update_project", "delete_project"} =>
       /\ last.status \in {200, 403}
       /\ last.status = 403 =>
             ~\E r \in TEAM : /\ r.P_ID = last.project_id /\ r.U_ID = last.caller
                              /\ r.ROLE = "PM"

AlertAccepted(data) ==
    /\ data.UID \in Users
    /\ data.P_ID # NullId => \E r \in PROJECT : r.P_ID = data.P_ID
    /\ data.I_ID # NullId => \E r \in ISSUE : r.I_ID = data.I_ID

\* the row and the answer of create_alert
C3_alert_answers ==
    /\ \A p \in Procs :
          req[p].op = "create_alert" =>
             \E r \in ALERT : r.A_ID = req[p].last_record_id /\ r.UID = req[p].data.UID
    /\ last.op = "create_alert" =>
          IF AlertAccepted(last.data)
          THEN /\ last.status = 200
               /\ last.body # {}
               /\ \A r \in last.body : r.UID = last.data.UID
          ELSE last.status = 500

\* a create_alert that is refused inserts no row
C3_alert_steps ==
    (last'.op = "create_alert" /\ last'.status # 200) => ALERT' = ALERT

C4_creator_is_pm ==
    (last.op = "create_project" /\ last.status = 200) =>
       \E r \in TEAM : r.P_ID = last.P_ID /\ r.U_ID = last.caller /\ r.ROLE = "PM"

\* the answers of view_alert and set_read_alert
C5_alert_answers ==
    /\ last.op = "view_alert" => last.body = {r \in ALERT : r.UID = last.caller}
    /\ (last.op = "set_read_alert" /\
        ~\E r \in ALERT : r.A_ID = last.alert_id /\ r.UID = last.caller) =>
          last.status = 404

\* an A_READ changes only in a set_read_alert of its recipient; a 404 changes no row
C5_alert_steps ==
    /\ \A r \in ALERT :
          (\E n \in ALERT' : n.A_ID = r.A_ID /\ n.A_READ # r.A_READ) =>
             \E p \in Procs : /\ req[p].op = "set_read_alert"
                              /\ req[p].alert_id = r.A_ID
                              /\ req[p].caller = r.UID
    /\ (last'.op = "set_read_alert" /\ last'.status = 404) => ALERT' = ALERT

\* C5: view_alert returns exactly the ALERT rows whose UID is the caller;
\* set_read_alert changes A_READ only for the alert's recipient, and any other
\* caller or an unknown alert id is answered 404 with no ALERT row changed.
C5_recipient_only == []C5_alert_answers /\ [][C5_alert_steps]_vars

\* a caller is refused the alert of another user, which stays unread
C5_witness ==
    /\ last.op = "set_read_alert" /\ last.status = 404
    /\ \E r \in ALERT : r.A_ID = last.alert_id /\ r.UID # last.caller /\ ~r.A_READ
    /\ \E r \in ALERT : r.A_READ

Range(f) == {f[i] : i \in DOMAIN f}

\* C6: create_sprint with a UID more than once in ASSIGNEES succeeds and leaves
\* exactly one SPRINT_ASSIGN row per distinct UID of the list for the new sprint.
C6_assignees_deduplicated ==
    (last.op = "create_sprint" /\ last.status = 200) =>
       \A uid \in Range(last.data.ASSIGNEES) :
          Cardinality({r \in SPRINT_ASSIGN : r.S_ID = last.S_ID /\ r.UID = uid}) = 1

\* C7: there is at most one SPRINT_ASSIGN row for each (S_ID, UID) pair.
C7_assignment_unique ==
    \A r1, r2 \in SPRINT_ASSIGN :
       (r1.S_ID = r2.S_ID /\ r1.UID = r2.UID) => r1 = r2

\* C8: after delete_project(p) succeeded there is no PROJECT row p and no TEAM row
\* with P_ID = p, and no get_teams returns a row with P_ID = p.
C8_delete_project_removes_teams ==
    /\ \A pid \in deleted :
          /\ \A r \in PROJECT : r.P_ID # pid
          /\ \A r \in TEAM : r.P_ID # pid
    /\ last.op = "get_teams" => \A r \in last.body : r.P_ID \notin deleted

\* get_teams after a delete_project succeeded returns the rows of another project
C8_witness ==
    /\ last.op = "get_teams"
    /\ deleted # {}
    /\ last.body # {}

\* the caller of a request holds a PM row on project pid
HoldsPM(pid, uid) ==
    \E r \in TEAM : r.P_ID = pid /\ r.U_ID = uid /\ r.ROLE = "PM"

\* the rejections of add_team_member_by_pm
C9_add_answers ==
    last.op = "add_team_member_by_pm" =>
       /\ last.status = 403 => ~HoldsPM(last.P_ID, last.caller)
       /\ last.status = 404 => \A r \in PROJECT : r.P_NAME # last.P_NAME

\* the PM check lets exactly the PM go on to the INSERT; only a request past
\* the check inserts; a rejection changes no TEAM row
C9_add_steps ==
    /\ \A p \in Procs :
          (req[p].op = "add_team_member_by_pm" /\ req'[p] # req[p]) =>
             IF req[p].pc = "check_pm_query"
             THEN /\ TEAM' = TEAM
                  /\ IF HoldsPM(req[p].P_ID, req[p].caller)
                     THEN req'[p] # Idle /\ req'[p].pc = "insert_query"
                     ELSE req'[p] = Idle /\ last'.status = 403
             ELSE /\ req[p].pc = "insert_query"
                  /\ \A r \in TEAM' \ TEAM : r.P_ID = req[p].P_ID /\ r.U_ID = req[p].U_ID
    /\ (last'.op = "add_team_member_by_pm" /\ last'.status \in {403, 404}) =>
          TEAM' = TEAM

\* C9: add_team_member_by_pm inserts a TEAM row only if the caller holds a PM row
\* on the project when the handler checks it; without it the answer is 403, for a
\* project that does not exist 404, and both leave TEAM unchanged.
C9_add_member_pm_only == []C9_add_answers /\ [][C9_add_steps]_vars

\* a member who is no PM is refused while the project's PM row exists
C9_witness ==
    /\ last.op = "add_team_member_by_pm" /\ last.status = 403
    /\ \E r \in TEAM : r.P_ID = last.P_ID /\ r.U_ID = last.caller /\ r.ROLE # "PM"
    /\ \E r \in TEAM : r.P_ID = last.P_ID /\ r.ROLE = "PM"

\* the answers of delete_comment
C10_delete_answers ==
    last.op = "delete_comment" =>
       LET existing == {r \in COMMENT : r.C_ID = last.comment_id}
       IN /\ last.status \in {200, 404} => existing = {}
          /\ last.status = 403 <=> \E r \in existing : r.UID # last.caller

\* a COMMENT row goes away only in a delete_comment of its author; a rejection
\* changes no COMMENT row
C10_delete_steps ==
    /\ \A r \in COMMENT \ COMMENT' :
          \E p \in Procs : /\ req[p].op = "delete_comment"
                           /\ req[p].comment_id = r.C_ID
                           /\ req[p].caller = r.UID
    /\ (last'.op = "delete_comment" /\ last'.status \in {403, 404}) =>
          COMMENT' = COMMENT

\* C10: delete_comment removes a COMMENT row only when the caller is its author;
\* a non-author is answered 403 and an unknown comment id 404, and both leave
\* COMMENT unchanged.
C10_author_only == []C10_delete_answers /\ [][C10_delete_steps]_vars

\* a non-author is refused and the comment is still there
C10_witness ==
    /\ last.op = "delete_comment" /\ last.status = 403
    /\ \E r \in COMMENT : r.C_ID = last.comment_id /\ r.UID # last.caller

\* C11: every ISSUE row, every SPRINT row and every ALERT row with a non-null P_ID
\* refers to a PROJECT row that exists: no create stores a row for a project that
\* does not exist and delete_project leaves no such row behind.
C11_project_references ==
    /\ \A r \in ISSUE \cup SPRINT : \E p \in PROJECT : p.P_ID = r.P_ID
    /\ \A r \in ALERT : r.P_ID # NullId => \E p \in PROJECT : p.P_ID = r.P_ID

\* a project was deleted while an issue, a sprint and an alert refer to the other
C11_witness ==
    /\ deleted # {}
    /\ ISSUE # {} /\ SPRINT # {}
    /\ \E r \in ALERT : r.P_ID # NullId

\* C12: an operation that targets an id absent from the store ends in NotFound
\* (404) with the store unchanged, for every caller.  Here for the projects:
\* update_project and delete_project of a P_ID that no PROJECT row ever had.
C12_absent_is_not_found ==
    (last.op \in {"update_project", "delete_project"} /\ last.project_id >= seq.P) =>
       last.status = 404

\* C13: the FROM_UID of each issue, the UID of each project and the UID of each
\* comment are the caller of the request that created the row, in every state:
\* no later operation changes them.
C13_owner_is_creator ==
    \A k \in creator :
       /\ k.t = "ISSUE" => \A r \in ISSUE : r.I_ID = k.id => r.FROM_UID = k.by
       /\ k.t = "PROJECT" => \A r \in PROJECT : r.P_ID = k.id => r.UID = k.by
       /\ k.t = "COMMENT" => \A r \in COMMENT : r.C_ID = k.id => r.UID = k.by

\* u2 has updated the project and the issue that u1 created, and u1 has commented
C13_witness ==
    /\ \E r \in PROJECT : r.UID = "u1" /\ r.P_NAME = "b"
    /\ \E r \in ISSUE : r.FROM_UID = "u1" /\ r.FOR_UID = "u3"
    /\ \E r \in COMMENT : r.UID = "u1"

\* C14: the first TEAM row ever inserted for a project has U_ID equal to the
\* project's creator (PROJECT.UID): a caller who is not the creator cannot create
\* it through create_team_as_pm.  Here for the first TEAM row of the store (T_ID 1),
\* which is the first of its project.
C14_first_team_row_by_creator ==
    \A r \in TEAM :
       r.T_ID = 1 => \E p \in PROJECT : p.P_ID = r.P_ID /\ p.UID = r.U_ID

\* C15: after create_sprint(TITLE, CONTENTS, P_ID, STAT, ASSIGNEES) succeeded,
\* get_project_sprints(P_ID) contains a sprint with the returned S_ID whose TITLE,
\* CONTENTS and STAT are the submitted values and whose assignee list holds
\* exactly the submitted UIDs, one element for each element submitted.
C15_sprint_round_trip ==
    last.op = "get_project_sprints" =>
       \A k \in last.known :
          \E s \in last.body :
             /\ s.S_ID = k.id
             /\ s.TITLE = k.data.TITLE
             /\ s.CONTENTS = k.data.CONTENTS
             /\ s.STAT = k.data.STAT
             /\ {a.UID : a \in s.ASSIGNEES} = Range(k.data.ASSIGNEES)
             /\ Cardinality(s.ASSIGNEES) = Len(k.data.ASSIGNEES)

\* a sprint submitted as DONE with three assignees is read back
C15_witness ==
    /\ last.op = "get_project_sprints"
    /\ \E k \in last.known : k.data.STAT = "DONE" /\ Len(k.data.ASSIGNEES) = 3

\* the rows of SPRINT_ASSIGN for the pair of a request
RowsOfPair(data) == {r \in SPRINT_ASSIGN : r.S_ID = data.S_ID /\ r.UID = data.UID}

C16_assign_answers ==
    /\ (last.op = "assign_user_to_sprint" /\ last.status = 400)
          => RowsOfPair(last.data) # {}
    /\ (last.op = "unassign_user_from_sprint" /\ last.status = 404)
          => RowsOfPair(last.data) = {}

C16_assign_steps ==
    /\ \A p \in Procs :
          (req[p] = Idle /\ req'[p] # Idle) =>
             /\ req'[p].op = "assign_user_to_sprint" => RowsOfPair(req'[p].data) = {}
             /\ req'[p].op = "unassign_user_from_sprint" => RowsOfPair(req'[p].data) # {}
    /\ (last = NoResponse /\ last' # NoResponse /\ last'.status \in {400, 404}
          /\ last'.op \in {"assign_user_to_sprint", "unassign_user_from_sprint"})
          => SPRINT_ASSIGN' = SPRINT_ASSIGN

\* C16: assign_user_to_sprint for a (S_ID, UID) pair that has a SPRINT_ASSIGN row
\* when the request checks is answered with the error (status 400), never carried
\* on to the INSERT, and leaves SPRINT_ASSIGN as it was; unassign_user_from_sprint
\* for a pair without a row is answered 404, never carried on to the DELETE, and
\* leaves SPRINT_ASSIGN as it was.
C16_duplicate_assign_rejected == []C16_assign_answers /\ [][C16_assign_steps]_vars

\* a duplicate assign has just been answered 400 while its pair has a row and
\* another pair, for which an unassign would be refused, has none
C16_witness ==
    /\ last.op = "assign_user_to_sprint" /\ last.status = 400
    /\ \E d \in SprintAssignIn : RowsOfPair(d) = {} /\ RowsOfPair(last.data) # {}

\* the caller of the request in slot p is the sender or the recipient of row r
C17_participant(p, r) == r.FROM_UID = req[p].caller \/ r.FOR_UID = req[p].caller

C17_issue_steps ==
    \A r \in ISSUE :
       /\ (\A n \in ISSUE' : n.I_ID # r.I_ID) =>
             \E p \in Procs : /\ req[p].op = "delete_issue"
                              /\ req[p].issue_id = r.I_ID
                              /\ C17_participant(p, r)
       /\ (\E n \in ISSUE' : n.I_ID = r.I_ID /\ n # r) =>
             \E p \in Procs : /\ req[p].op = "update_issue"
                              /\ req[p].issue_id = r.I_ID
                              /\ C17_participant(p, r)

\* C17: in every step, also of interleaved requests on one issue, an issue row is
\* removed only by a delete_issue request, and changed only by an update_issue
\* request, whose caller is the FROM_UID or the FOR_UID of the row as it is in the
\* store when the step is taken.
C17_mutation_by_participant == [][C17_issue_steps]_vars

\* C18: update_issue never answers 200 with the issue row when its UPDATE
\* statement changed no row: a 200 answer of update_issue follows an UPDATE that
\* changed at least one row.
C18_no_success_without_update ==
    (last.op = "update_issue" /\ last.status = 200) => last.revised_rows > 0

\* C19: in every reachable state, also when create_team_as_pm or
\* add_team_member_by_pm is interleaved with a delete_project of the same project,
\* the P_ID of every TEAM row is the P_ID of a PROJECT row.
C19_team_references_project ==
    \A r \in TEAM : \E p \in PROJECT : p.P_ID = r.P_ID

\* the project was deleted between the lookup by name and the INSERT of a
\* create_team_as_pm: the INSERT was refused
C19_witness ==
    /\ last.op = "create_team_as_pm" /\ last.status = 500
    /\ deleted # {}

\* caller c is neither the sender nor the recipient of the PRIVATE issue x
C20_hidden_from(x, c) ==
    x.I_RELEASE = "PRIVATE" /\ x.FROM_UID # c /\ x.FOR_UID # c

\* C20: for a caller who is neither FROM_UID nor FOR_UID of a PRIVATE issue, the
\* answers of view_issue, get_issues, update_issue and delete_issue are the same
\* in the store and in the store without that issue, whatever id is asked for.
C20_private_issue_unobservable ==
    \A x \in ISSUE : \A c \in Callers :
       C20_hidden_from(x, c) =>
          /\ \A iid \in IidInputs :
                /\ view_issue_response(ISSUE, c, iid) = view_issue_response(ISSUE \ {x}, c, iid)
                /\ update_issue_check(ISSUE, c, iid) = update_issue_check(ISSUE \ {x}, c, iid)
                /\ delete_issue_check(ISSUE, c, iid) = delete_issue_check(ISSUE \ {x}, c, iid)
          /\ \A pid \in ParentPids :
                get_issues_response(ISSUE, c, pid) = get_issues_response(ISSUE \ {x}, c, pid)

\* a caller has just listed a project that holds a PRIVATE issue of others next to
\* an issue the caller may see, and was given the second only
C20_witness ==
    /\ last.op = "get_issues" /\ last.status = 200
    /\ \E x \in ISSUE : /\ C20_hidden_from(x, last.caller)
                        /\ x.P_ID = last.project_id
                        /\ x \notin last.body

====
